---- MODULE Spec2Model ----
\* Model of the transaction core of the Thirupugazh POS backend (src/app.py):
\* carts and their lines, hold / resume, checkout with bill numbering, void,
\* and the business-day clock.  The store is one SQL database; every request
\* handler ends with db.session.commit() and a failed request is rolled back
\* when Flask-SQLAlchemy removes the session at the end of the request.
EXTENDS Integers, Sequences, FiniteSets, TLC

\* ---------------------------------------------------------------- bounds
\* Rows the model lets the tables grow to, and how far the clock advances.
MaxCarts == 2
MaxItems == 2
MaxSales == 2
MaxTick == 2
\* Requests the server handles at the same time.
MaxWorkers == 2

\* ------------------------------------------------------------- constants
\* timedelta(hours=5, minutes=30) in seconds.
IstOffset == 19800
\* The cutover hour of the business day.
CutoverHour == 15
\* zfill(4)
BillDigits == 4

\* A column holding NULL / a request field that is absent.
NoneInt == 0 - 1
NoneStr == "None"

\* -------------------------------------------------------------- the clock
\* Instants are seconds since 2024-12-31T00:00:00Z (datetime.utcnow()).
\* The requests of a run arrive at these instants, in this order:
\*   1: 2024-12-31 14:59:59 IST    2: 2024-12-31 15:00:00 IST
\*   3: 2025-01-01 10:00:00 IST    4: 2025-01-01 15:00:00 IST
\*   5: 2025-01-01 21:00:00 IST    6: 2025-01-02 10:00:00 IST
Instants == <<34199, 34200, 102600, 120600, 142200, 189000>>

\* Offsets of the server's local clock (datetime.now()) from UTC, in seconds:
\* a host running on UTC and a host running on IST.
ServerOffsets == {0, IstOffset}

\* datetime.date() and datetime.hour of an instant, as a day number / hour.
DateOf(s) == s \div 86400
HourOf(s) == (s % 86400) \div 3600

\* date.year of a day number: day 0 is 2024-12-31, so days 1..365 are 2025.
YearOf(day) == IF day <= 0 THEN 2024 ELSE 2025

\* get_business_date without the shift to IST: the hour and the date of
\* datetime.utcnow() itself.
get_business_date_utc(utc) ==
    LET now == utc
    IN  IF HourOf(now) < CutoverHour THEN DateOf(now) - 1 ELSE DateOf(now)

\* get_business_date, the definition in force (the second one), at UTC instant utc.
get_business_date(utc) ==
    LET now == utc + IstOffset
    IN  IF HourOf(now) < CutoverHour THEN DateOf(now) - 1 ELSE DateOf(now)

\* ------------------------------------------------------------ the catalog
\* init_db's default menu: id -> name, price.  No handler changes it.
MenuIds == {1, 2, 3, 4}
MenuName(m) ==
    CASE m = 1 -> "Full Set" [] m = 2 -> "Half Set"
      [] m = 3 -> "Three Tickets" [] OTHER -> "Custom Amount"
MenuPrice(m) ==
    CASE m = 1 -> 580 [] m = 2 -> 300 [] m = 3 -> 150 [] OTHER -> 0

\* init_db's users: id 1 is admin, ids 2.. are staff1..staff10.
StaffIds == {2, 3}

VARIABLES
    clock,      \* index into Instants: the current instant
    tz,         \* the server's local-clock offset from UTC
    carts,      \* Cart table: id -> row
    cartSeq,    \* highest Cart id issued so far
    items,      \* CartItem table, in id order
    sales,      \* Sale table, in id order
    wk,         \* the request each worker has in flight
    resp        \* the response to the latest request

vars == <<clock, tz, carts, cartSeq, items, sales, wk, resp>>

\* datetime.utcnow() and datetime.now()
utcnow == Instants[clock]
localnow == Instants[clock] + tz

\* ------------------------------------------------------------------ rows
Cart(staff, created) ==
    [status |-> "ACTIVE", staff_id |-> staff, customer_name |-> NoneStr,
     customer_phone |-> NoneStr, created_at |-> created]

CartItem(c, line) ==
    [cart_id |-> c, menu_id |-> line.menu_id, quantity |-> 1,
     custom_price |-> line.custom_price, custom_name |-> line.custom_name]

Response(op, code, c, body) == [op |-> op, code |-> code, body |-> body]
NoResponse == Response("none", 0, 0, {})

RemoveAt(s, k) == SubSeq(s, 1, k - 1) \o SubSeq(s, k + 1, Len(s))

\* CartItem.query.filter_by(cart_id=c).all()
CartItemsOf(rows, c) == SelectSeq(rows, LAMBDA i : i.cart_id = c)

\* ------------------------------------------------------- bill numbers
\* str(n) as its decimal digits, str.zfill, and int() of a digit string.
RECURSIVE DigitsOf(_)
DigitsOf(n) == IF n < 10 THEN <<n>> ELSE Append(DigitsOf(n \div 10), n % 10)

RECURSIVE zfill(_, _)
zfill(ds, w) == IF Len(ds) >= w THEN ds ELSE zfill(<<0>> \o ds, w)

RECURSIVE ParseInt(_)
ParseInt(ds) ==
    IF ds = <<>> THEN 0 ELSE 10 * ParseInt(SubSeq(ds, 1, Len(ds) - 1)) + ds[Len(ds)]

\* f"{prefix}-{str(n).zfill(4)}": the year of the prefix "TLA-<year>" and the
\* digits after the last "-".
BillNo(year, n) == [prefix |-> year, digits |-> zfill(DigitsOf(n), BillDigits)]

\* The query for the last bill number without its LIKE filter: every Sale.
SalesAnyYear(S, year) == 1..Len(S)

\* The positions of the Sales whose bill_no is LIKE "TLA-<year>-%".
SalesWithPrefix(S, year) == {k \in 1..Len(S) : S[k].bill_no.prefix = year}

MaxOf(ks) == CHOOSE k \in ks : \A j \in ks : j <= k

\* generate_bill_no over Sale table S, with datetime.now() = local.
generate_bill_no(S, local) ==
    LET year == YearOf(DateOf(local))
        ks   == SalesWithPrefix(S, year)
    IN  IF ks # {}
        THEN BillNo(year, ParseInt(S[MaxOf(ks)].bill_no.digits) + 1)
        ELSE BillNo(year, 1)

\* Sale.bill_no declared without unique=True: every INSERT is accepted.
BillNoUnchecked(S, s) == TRUE

\* Sale.bill_no is unique=True: the INSERT of row s into S is refused when
\* its bill_no is already there.
BillNoUnique(S, s) == \A k \in 1..Len(S) : S[k].bill_no # s.bill_no
\* ---------------------------------------------------------------- checkout
\* int(d.get("discount") or 0): an absent discount is <<>>, a given one <<v>>.
DiscountOf(d) == IF d.discount = <<>> THEN 0 ELSE d.discount[1]

\* The price of a line taken from the catalog whatever the line carries.
LinePriceCatalog(i) == IF i.menu_id \in MenuIds THEN MenuPrice(i.menu_id) ELSE 0

\* price and name of a line, as checkout and view_cart compute them
LinePrice(i) ==
    IF i.custom_price # NoneInt THEN i.custom_price
    ELSE IF i.menu_id \in MenuIds THEN MenuPrice(i.menu_id) ELSE 0
\* The name of a line taken from the catalog whatever the line carries.
LineNameCatalog(i) == IF i.menu_id \in MenuIds THEN MenuName(i.menu_id) ELSE "Custom Item"

LineName(i) ==
    IF i.custom_name # NoneStr /\ i.custom_name # "" THEN i.custom_name
    ELSE IF i.menu_id \in MenuIds THEN MenuName(i.menu_id) ELSE "Custom Item"

\* items_data: the snapshot appended for each line
ItemsData(rows) ==
    [k \in 1..Len(rows) |->
        [quantity |-> rows[k].quantity, name |-> LineName(rows[k]),
         price |-> LinePrice(rows[k]),
         subtotal |-> LinePrice(rows[k]) * rows[k].quantity]]

RECURSIVE SumSubtotals(_)
SumSubtotals(data) ==
    IF data = <<>> THEN 0 ELSE data[1].subtotal + SumSubtotals(Tail(data))

Max(a, b) == IF a >= b THEN a ELSE b

\* The total without the clamp at zero.
FinalTotalUnclamped(subtotal, discount) == subtotal - discount

\* final_total = max(subtotal - discount, 0)
FinalTotal(subtotal, discount) == Max(subtotal - discount, 0)

\* The Sale object checkout builds from request d and the lines it read, over
\* Sale table S at UTC instant utc with the server's clock reading local.
\* cart_id is not a column: it records the request the row answers.
NewSale(d, rows, S, utc, local) ==
    LET data     == ItemsData(rows)
        subtotal == SumSubtotals(data)
        discount == DiscountOf(d)
    IN  [status         |-> "COMPLETED",
         staff_id       |-> d.staff_id,
         customer_name  |-> d.customer_name,
         customer_phone |-> d.customer_phone,
         created_at     |-> utc,
         cart_id        |-> d.cart_id,
         bill_no        |-> generate_bill_no(S, local),
         discount       |-> discount,
         subtotal       |-> subtotal,
         total          |-> FinalTotal(subtotal, discount),
         items_json     |-> data,
         payment_method |-> d.payment_method,
         business_date  |-> get_business_date(utc)]

\* cart = Cart.query.get(cart_id); if cart: cart.status = "PAID"
MarkPaid(C, c) == IF c \in DOMAIN C THEN [C EXCEPT ![c].status = "PAID"] ELSE C

\* A failed commit whose pending cart update is kept instead of rolled back.
NotRolledBack(C, c) == MarkPaid(C, c)

\* The Cart table after a request whose commit failed: the session is removed
\* at the end of the request, which rolls its pending changes back.
RolledBack(C, c) == C

\* db.session.add(sale) ... db.session.commit() of checkout for cart c.  The
\* INSERT fills created_at, whose default is datetime.utcnow.
CheckoutCommit(sale, c) ==
    IF BillNoUnique(sales, sale)
    THEN /\ sales' = Append(sales, [sale EXCEPT !.created_at = utcnow])
         /\ carts' = MarkPaid(carts, c)
         /\ resp' = Response("checkout", 200, c, {})
    ELSE /\ sales' = sales
         /\ carts' = RolledBack(carts, c)
         /\ resp' = Response("checkout", 500, c, {})

\* checkout without the test "if not items": every request with a cart id
\* is settled.
checkout_unguarded(d) ==
    /\ Len(sales) < MaxSales
    /\ IF d.cart_id = 0
       THEN /\ resp' = Response("checkout", 400, 0, "Cart ID missing")
            /\ UNCHANGED <<carts, sales>>
       ELSE CheckoutCommit(NewSale(d, CartItemsOf(items, d.cart_id), sales, utcnow, localnow),
                           d.cart_id)
    /\ UNCHANGED <<clock, tz, cartSeq, items, wk>>

\* checkout, handled without any other request in between
checkout(d) ==
    /\ Len(sales) < MaxSales
    /\ IF d.cart_id = 0
       THEN /\ resp' = Response("checkout", 400, 0, "Cart ID missing")
            /\ UNCHANGED <<carts, sales>>
       ELSE LET rows == CartItemsOf(items, d.cart_id)
            IN  IF rows = <<>>
                THEN /\ resp' = Response("checkout", 400, d.cart_id, "Cart empty")
                     /\ UNCHANGED <<carts, sales>>
                ELSE CheckoutCommit(NewSale(d, rows, sales, utcnow, localnow), d.cart_id)
    /\ UNCHANGED <<clock, tz, cartSeq, items, wk>>

\* checkout as a threaded server runs it: other requests commit between its
\* queries.  Worker p reads the lines (lines 585-612), ...
checkout_begin(p, d) ==
    /\ wk[p].pc = "idle"
    /\ Len(sales) + Cardinality({q \in DOMAIN wk : wk[q].pc # "idle"}) < MaxSales
    /\ IF d.cart_id = 0
       THEN /\ resp' = Response("checkout", 400, 0, "Cart ID missing")
            /\ wk' = wk
       ELSE LET rows == CartItemsOf(items, d.cart_id)
            IN  IF rows = <<>>
                THEN /\ resp' = Response("checkout", 400, d.cart_id, "Cart empty")
                     /\ wk' = wk
                ELSE /\ wk' = [wk EXCEPT ![p] = [pc |-> "read", req |-> d, lines |-> rows]]
                     /\ resp' = resp
    /\ UNCHANGED <<clock, tz, carts, cartSeq, items, sales>>

\* ... queries the last bill number and builds the Sale (lines 614-629), ...
checkout_bill(p) ==
    /\ wk[p].pc = "read"
    /\ wk' = [wk EXCEPT ![p] =
                [pc |-> "billed", req |-> wk[p].req,
                 pending |-> NewSale(wk[p].req, wk[p].lines, sales, utcnow, localnow)]]
    /\ UNCHANGED <<clock, tz, carts, cartSeq, items, sales, resp>>

\* ... and commits the Sale with the cart's new status (lines 631-645).
checkout_commit(p) ==
    /\ wk[p].pc = "billed"
    /\ CheckoutCommit(wk[p].pending, wk[p].req.cart_id)
    /\ wk' = [wk EXCEPT ![p] = [pc |-> "idle"]]
    /\ UNCHANGED <<clock, tz, cartSeq, items>>

\* ------------------------------------------------------------------ void
\* A void that flips the status: a VOID Sale becomes COMPLETED again.
admin_void_sale_toggle(sale_id) ==
    /\ IF sale_id \notin 1..Len(sales)
       THEN /\ resp' = Response("admin_void_sale", 404, 0, {})
            /\ sales' = sales
       ELSE /\ sales' = [sales EXCEPT ![sale_id].status =
                            IF @ = "VOID" THEN "COMPLETED" ELSE "VOID"]
            /\ resp' = Response("admin_void_sale", 200, 0, {})
    /\ UNCHANGED <<clock, tz, carts, cartSeq, items, wk>>

admin_void_sale(sale_id) ==
    /\ IF sale_id \notin 1..Len(sales)
       THEN /\ resp' = Response("admin_void_sale", 404, 0, {})
            /\ sales' = sales
       ELSE IF sales[sale_id].status = "VOID"
       THEN /\ resp' = Response("admin_void_sale", 200, 0, {})
            /\ sales' = sales
       ELSE /\ sales' = [sales EXCEPT ![sale_id].status = "VOID"]
            /\ resp' = Response("admin_void_sale", 200, 0, {})
    /\ UNCHANGED <<clock, tz, carts, cartSeq, items, wk>>
\* --------------------------------------------------------------- reports
\* date.month of a day number: day 0 is 2024-12-31, days 1..31 are January.
MonthOf(day) == IF day <= 0 THEN 12 ELSE 1

\* init_db's User rows: admin and staff1..staff10.
UserIds == 1..11

\* Sale.query.filter_by(business_date=day): the positions of the rows.
SalesOfDay(S, day) == {k \in 1..Len(S) : S[k].business_date = day}

\* The Sales whose business_date has the month and the year of datetime.now().
SalesOfMonth(S, local) ==
    {k \in 1..Len(S) :
        /\ MonthOf(S[k].business_date) = MonthOf(DateOf(local))
        /\ YearOf(S[k].business_date) = YearOf(DateOf(local))}

\* The rows of ks that pass the filter status == "COMPLETED".
Completed(S, ks) == {k \in ks : S[k].status = "COMPLETED"}

\* sum(s.total for s in ...) and sum(s.discount for s in ...) over rows ks
RECURSIVE SumTotal(_, _)
SumTotal(S, ks) ==
    IF ks = {} THEN 0
    ELSE LET k == CHOOSE j \in ks : TRUE IN S[k].total + SumTotal(S, ks \ {k})

RECURSIVE SumDiscount(_, _)
SumDiscount(S, ks) ==
    IF ks = {} THEN 0
    ELSE LET k == CHOOSE j \in ks : TRUE IN S[k].discount + SumDiscount(S, ks \ {k})

\* Cart.query.filter_by(status="HOLD").count()
HoldCount == Cardinality({c \in DOMAIN carts : carts[c].status = "HOLD"})

\* The rows of ks paid by method
PaidBy(S, ks, method) == {k \in ks : S[k].payment_method = method}

\* staff_data: per staff member with a User row, the total of their rows of ks
StaffData(S, ks) ==
    [u \in {S[k].staff_id : k \in ks} \cap UserIds |->
        SumTotal(S, {k \in ks : S[k].staff_id = u})]

staff_cash_summary(staff) ==
    /\ resp' = Response("staff_cash_summary", 200, 0,
          [expected_cash |->
              SumTotal(sales, PaidBy(sales,
                  {k \in SalesOfDay(sales, get_business_date(utcnow)) :
                      sales[k].staff_id = staff}, "CASH"))])
    /\ UNCHANGED <<clock, tz, carts, cartSeq, items, sales, wk>>

admin_dashboard ==
    /\ resp' = Response("admin_dashboard", 200, 0,
          [today_total   |-> SumTotal(sales, SalesOfDay(sales, get_business_date(utcnow))),
           today_bills   |-> Cardinality(SalesOfDay(sales, get_business_date(utcnow))),
           hold_count    |-> HoldCount,
           monthly_total |-> SumTotal(sales, SalesOfMonth(sales, localnow)),
           monthly_bills |-> Cardinality(SalesOfMonth(sales, localnow))])
    /\ UNCHANGED <<clock, tz, carts, cartSeq, items, sales, wk>>

\* (the fields of the answer are listed in the order the module names them)
owner_dashboard ==
    /\ resp' = Response("owner_dashboard", 200, 0,
          [hold_count    |-> HoldCount,
           monthly_total |-> SumTotal(sales, SalesOfMonth(sales, localnow)),
           total_today   |-> SumTotal(sales, SalesOfDay(sales, get_business_date(utcnow))),
           bill_count    |-> Cardinality(SalesOfDay(sales, get_business_date(utcnow))),
           cash_total    |-> SumTotal(sales, PaidBy(sales, SalesOfDay(sales, get_business_date(utcnow)), "CASH")),
           upi_total     |-> SumTotal(sales, PaidBy(sales, SalesOfDay(sales, get_business_date(utcnow)), "UPI")),
           gpay_total    |-> SumTotal(sales, PaidBy(sales, SalesOfDay(sales, get_business_date(utcnow)), "GPAY")),
           online_total  |-> SumTotal(sales, PaidBy(sales, SalesOfDay(sales, get_business_date(utcnow)), "ONLINE")),
           staff_performance |-> StaffData(sales, SalesOfDay(sales, get_business_date(utcnow)))])
    /\ UNCHANGED <<clock, tz, carts, cartSeq, items, sales, wk>>

\* admin_daily_report without a date argument; staff 0: no staff filter.
admin_daily_report(staff) ==
    /\ LET ks == {k \in Completed(sales, SalesOfDay(sales, get_business_date(utcnow))) :
                    staff # 0 => sales[k].staff_id = staff}
       IN  resp' = Response("admin_daily_report", 200, 0,
                     [bill_count     |-> Cardinality(ks),
                      total_amount   |-> SumTotal(sales, ks),
                      total_discount |-> SumDiscount(sales, ks)])
    /\ UNCHANGED <<clock, tz, carts, cartSeq, items, sales, wk>>

\* The keys of payment_totals in admin_sales_breakdown.
PaymentMethods == {"CASH", "UPI", "GPAY", "ONLINE", "MIXED"}

admin_sales_breakdown ==
    /\ LET ks == Completed(sales, SalesOfDay(sales, get_business_date(utcnow)))
       IN  resp' = Response("admin_sales_breakdown", 200, 0,
                     [total_sales |-> SumTotal(sales, ks),
                      total_bills |-> Cardinality(ks),
                      payment_breakdown |->
                          [m \in PaymentMethods |-> SumTotal(sales, PaidBy(sales, ks, m))]])
    /\ UNCHANGED <<clock, tz, carts, cartSeq, items, sales, wk>>

\* ------------------------------------------------------------------ carts
create_cart(staff) ==
    /\ cartSeq < MaxCarts
    /\ cartSeq' = cartSeq + 1
    /\ carts' = carts @@ ((cartSeq + 1) :> Cart(staff, utcnow))
    /\ resp' = Response("create_cart", 200, cartSeq + 1, {})
    /\ UNCHANGED <<clock, tz, items, sales, wk>>

\* CartItem.cart_id is a ForeignKey("cart.id"): PostgreSQL refuses a line for
\* a cart id that has no row, SQLite (foreign keys off by default) stores it.
add_to_cart(c, line, fkEnforced) ==
    /\ Len(items) < MaxItems
    /\ IF c \notin DOMAIN carts /\ fkEnforced
       THEN /\ items' = items
            /\ resp' = Response("add_to_cart", 500, c, {})
       ELSE /\ items' = Append(items, CartItem(c, line))
            /\ resp' = Response("add_to_cart", 200, c, {})
    /\ UNCHANGED <<clock, tz, carts, cartSeq, sales, wk>>

\* The rows CartItem.query.filter_by(cart_id=c, menu_id=m).first() may return.
Matching(c, m) == {k \in 1..Len(items) : items[k].cart_id = c /\ items[k].menu_id = m}

\* A removal that always lowers the quantity and never deletes the row.
remove_from_cart_decrement(c, m) ==
    /\ IF Matching(c, m) = {}
       THEN items' = items
       ELSE \E k \in Matching(c, m) : items' = [items EXCEPT ![k].quantity = @ - 1]
    /\ resp' = Response("remove_from_cart", 200, c, {})
    /\ UNCHANGED <<clock, tz, carts, cartSeq, sales, wk>>

remove_from_cart(c, m) ==
    /\ IF Matching(c, m) = {}
       THEN items' = items
       ELSE \E k \in Matching(c, m) :
              IF items[k].quantity > 1
              THEN items' = [items EXCEPT ![k].quantity = @ - 1]
              ELSE items' = RemoveAt(items, k)
    /\ resp' = Response("remove_from_cart", 200, c, {})
    /\ UNCHANGED <<clock, tz, carts, cartSeq, sales, wk>>

\* --------------------------------------------------------- hold / resume
hold_cart(c, name, phone) ==
    /\ IF c \in DOMAIN carts /\ carts[c].status = "ACTIVE"
       THEN carts' = [carts EXCEPT ![c].status = "HOLD",
                                   ![c].customer_name = name,
                                   ![c].customer_phone = phone]
       ELSE carts' = carts
    /\ resp' = Response("hold_cart", 200, c, {})
    /\ UNCHANGED <<clock, tz, cartSeq, items, sales, wk>>

\* The cart ids held_carts returns to a caller with this role and user_id
\* (user_id 0: not given).
HeldList(role, user_id) ==
    IF HourOf(localnow) >= CutoverHour /\ role # "admin"
    THEN {}
    ELSE {c \in DOMAIN carts :
            /\ carts[c].status = "HOLD"
            /\ (role # "admin" /\ user_id # 0) => carts[c].staff_id = user_id}

held_carts(role, user_id) ==
    /\ resp' = Response("held_carts", 200, 0, HeldList(role, user_id))
    /\ UNCHANGED <<clock, tz, carts, cartSeq, items, sales, wk>>

\* resume_cart with the 15:00 gate applied to every role.
resume_cart_gated(c, role) ==
    /\ IF HourOf(localnow) >= CutoverHour
       THEN /\ resp' = Response("resume_cart", 403, c, {})
            /\ carts' = carts
       ELSE IF c \in DOMAIN carts /\ carts[c].status = "HOLD"
       THEN /\ carts' = [carts EXCEPT ![c].status = "ACTIVE"]
            /\ resp' = Response("resume_cart", 200, c, {})
       ELSE /\ resp' = Response("resume_cart", 404, c, {})
            /\ carts' = carts
    /\ UNCHANGED <<clock, tz, cartSeq, items, sales, wk>>

resume_cart(c, role) ==
    /\ IF HourOf(localnow) >= CutoverHour /\ role # "admin"
       THEN /\ resp' = Response("resume_cart", 403, c, {})
            /\ carts' = carts
       ELSE IF c \in DOMAIN carts /\ carts[c].status = "HOLD"
       THEN /\ carts' = [carts EXCEPT ![c].status = "ACTIVE"]
            /\ resp' = Response("resume_cart", 200, c, {})
       ELSE /\ resp' = Response("resume_cart", 404, c, {})
            /\ carts' = carts
    /\ UNCHANGED <<clock, tz, cartSeq, items, sales, wk>>

\* hold_cart and resume_cart as a threaded server runs them: other requests
\* commit between the query that loads the cart and the commit that writes
\* its status.  Worker p loads the cart and tests its status (lines 514-517,
\* 558-569), ...
hold_begin(p, c, name, phone) ==
    /\ wk[p].pc = "idle"
    /\ IF c \in DOMAIN carts /\ carts[c].status = "ACTIVE"
       THEN /\ wk' = [wk EXCEPT ![p] =
                       [pc |-> "hold",
                        req |-> [customer_name |-> name, customer_phone |-> phone,
                                 cart_id |-> c]]]
            /\ resp' = resp
       ELSE /\ wk' = wk
            /\ resp' = Response("hold_cart", 200, c, {})
    /\ UNCHANGED <<clock, tz, carts, cartSeq, items, sales>>

resume_begin(p, c, role) ==
    /\ wk[p].pc = "idle"
    /\ IF HourOf(localnow) >= CutoverHour /\ role # "admin"
       THEN /\ wk' = wk
            /\ resp' = Response("resume_cart", 403, c, {})
       ELSE IF c \in DOMAIN carts /\ carts[c].status = "HOLD"
       THEN /\ wk' = [wk EXCEPT ![p] = [pc |-> "resume", req |-> [cart_id |-> c]]]
            /\ resp' = resp
       ELSE /\ wk' = wk
            /\ resp' = Response("resume_cart", 404, c, {})
    /\ UNCHANGED <<clock, tz, carts, cartSeq, items, sales>>

\* ... and commits the UPDATE of the columns it assigned (lines 518-523,
\* 570-575), whatever the row holds by then.
hold_commit(p) ==
    /\ wk[p].pc = "hold"
    /\ carts' = [carts EXCEPT ![wk[p].req.cart_id].status = "HOLD",
                              ![wk[p].req.cart_id].customer_name = wk[p].req.customer_name,
                              ![wk[p].req.cart_id].customer_phone = wk[p].req.customer_phone]
    /\ resp' = Response("hold_cart", 200, wk[p].req.cart_id, {})
    /\ wk' = [wk EXCEPT ![p] = [pc |-> "idle"]]
    /\ UNCHANGED <<clock, tz, cartSeq, items, sales>>

resume_commit(p) ==
    /\ wk[p].pc = "resume"
    /\ carts' = [carts EXCEPT ![wk[p].req.cart_id].status = "ACTIVE"]
    /\ resp' = Response("resume_cart", 200, wk[p].req.cart_id, {})
    /\ wk' = [wk EXCEPT ![p] = [pc |-> "idle"]]
    /\ UNCHANGED <<clock, tz, cartSeq, items, sales>>

\* C without the row of cart c
WithoutCart(C, c) == [k \in DOMAIN C \ {c} |-> C[k]]

\* A discard that deletes the Cart row and leaves its CartItem rows.
admin_delete_hold_cart_only(c) ==
    /\ IF c \notin DOMAIN carts
       THEN /\ resp' = Response("admin_delete_hold", 404, c, {})
            /\ UNCHANGED <<carts, items>>
       ELSE IF carts[c].status # "HOLD"
       THEN /\ resp' = Response("admin_delete_hold", 400, c, {})
            /\ UNCHANGED <<carts, items>>
       ELSE /\ items' = items
            /\ carts' = WithoutCart(carts, c)
            /\ resp' = Response("admin_delete_hold", 200, c, {})
    /\ UNCHANGED <<clock, tz, cartSeq, sales, wk>>

admin_delete_hold(c) ==
    /\ IF c \notin DOMAIN carts
       THEN /\ resp' = Response("admin_delete_hold", 404, c, {})
            /\ UNCHANGED <<carts, items>>
       ELSE IF carts[c].status # "HOLD"
       THEN /\ resp' = Response("admin_delete_hold", 400, c, {})
            /\ UNCHANGED <<carts, items>>
       ELSE /\ items' = SelectSeq(items, LAMBDA i : i.cart_id # c)
            /\ carts' = WithoutCart(carts, c)
            /\ resp' = Response("admin_delete_hold", 200, c, {})
    /\ UNCHANGED <<clock, tz, cartSeq, sales, wk>>

\* ------------------------------------------------------------- senders
\* The role the User table gives user u: id 1 is admin, the others staff.
DirectoryRole(u) == IF u = 1 THEN "admin" ELSE "staff"

\* The admin routes as user u calls them.  No route reads a session, a token
\* or a user id: who sends the request does not reach the handler, and the
\* role resume_cart tests is the one the request states.
delete_hold_by(u, c) == admin_delete_hold(c)
void_sale_by(u, sale_id) == admin_void_sale(sale_id)
resume_by(u, c, role) == resume_cart(c, role)

\* ----------------------------------------------------------------- time
\* The clock moves to the next instant; the latest response has been delivered.
Tick ==
    /\ clock <= MaxTick
    /\ clock < Len(Instants)
    /\ clock' = clock + 1
    /\ resp' = NoResponse
    /\ UNCHANGED <<tz, carts, cartSeq, items, sales, wk>>

\* ------------------------------------------------------------- requests
Workers == 1..MaxWorkers
Idle == [pc |-> "idle"]

CartIdInputs == 0..MaxCarts
Roles == {"admin", "staff"}

\* The lines a client adds: a catalog item, and an ad-hoc amount entered
\* against the "Custom Amount" item.
LineInputs ==
    {[menu_id |-> 1, custom_price |-> NoneInt, custom_name |-> NoneStr],
     [menu_id |-> 4, custom_price |-> 50, custom_name |-> "Extra"]}

\* The requested discounts: absent, within the subtotal, above it, negative.
DiscountInputs == {<<>>, <<100>>, <<2000>>, <<0 - 50>>}

CheckoutRequest(c, disc) ==
    [staff_id |-> 2, customer_name |-> "Ravi", customer_phone |-> "9876543210",
     cart_id |-> c, discount |-> disc, payment_method |-> "CASH"]

\* ------------------------------------------------- the specification
\* Requests handled one at a time, on a host in either time zone.
Init ==
    /\ clock = 1
    /\ tz \in ServerOffsets
    /\ carts = <<>>
    /\ cartSeq = 0
    /\ items = <<>>
    /\ sales = <<>>
    /\ wk = [p \in Workers |-> Idle]
    /\ resp = NoResponse

CatalogLine == [menu_id |-> 1, custom_price |-> NoneInt, custom_name |-> NoneStr]

Next ==
    \/ \E staff \in {2} : create_cart(staff)
    \/ \E c \in DOMAIN carts : add_to_cart(c, CatalogLine, TRUE)
    \/ \E c \in 1..MaxCarts : remove_from_cart(c, 1)
    \/ \E c \in 1..MaxCarts : hold_cart(c, "Ravi", "9876543210")
    \/ \E role \in Roles, u \in StaffIds \cup {0} : held_carts(role, u)
    \/ \E c \in 1..MaxCarts, role \in Roles : resume_cart(c, role)
    \/ \E c \in 1..MaxCarts : admin_delete_hold(c)
    \/ \E c \in CartIdInputs : checkout(CheckoutRequest(c, <<>>))
    \/ Tick

Spec == Init /\ [][Next]_vars

\* Checkout amounts: requests handled one at a time at one instant on a host
\* running on UTC, with every kind of line and of requested discount.
InitSale ==
    /\ clock = 1
    /\ tz = 0
    /\ carts = <<>>
    /\ cartSeq = 0
    /\ items = <<>>
    /\ sales = <<>>
    /\ wk = [p \in Workers |-> Idle]
    /\ resp = NoResponse

NextSale ==
    \/ \E staff \in {2} : create_cart(staff)
    \/ \E c \in DOMAIN carts, line \in LineInputs : add_to_cart(c, line, TRUE)
    \/ \E c \in 1..MaxCarts, m \in {1, 4} : remove_from_cart(c, m)
    \/ \E c \in CartIdInputs, disc \in DiscountInputs : checkout(CheckoutRequest(c, disc))
    \/ \E k \in 1..MaxSales : admin_void_sale(k)

SpecSale == InitSale /\ [][NextSale]_vars

\* Every cart has been opened and is still empty, at 14:59:59 IST on a host
\* running on UTC.
InitAmount ==
    /\ clock = 1
    /\ tz = 0
    /\ carts = [c \in 1..MaxCarts |-> Cart(2, Instants[1])]
    /\ cartSeq = MaxCarts
    /\ items = <<>>
    /\ sales = <<>>
    /\ wk = [p \in Workers |-> Idle]
    /\ resp = NoResponse

\* The carts are filled with catalog and ad-hoc lines and checked out with a
\* discount of 100, one request at a time.
NextAmount ==
    \/ \E c \in DOMAIN carts, line \in LineInputs : add_to_cart(c, line, TRUE)
    \/ \E c \in CartIdInputs : checkout(CheckoutRequest(c, <<100>>))

SpecAmount == InitAmount /\ [][NextAmount]_vars

\* The lines of the carts whose totals are checked: a catalog item, an ad-hoc
\* amount, and an ad-hoc amount below zero (custom_price is stored as sent).
PricedLines ==
    LineInputs \cup {[menu_id |-> 4, custom_price |-> 0 - 30, custom_name |-> "Refund"]}

\* Every cart has been opened and holds one line, of any kind.
InitPriced ==
    /\ clock = 1
    /\ tz = 0
    /\ carts = [c \in 1..MaxCarts |-> Cart(2, Instants[1])]
    /\ cartSeq = MaxCarts
    /\ \E kind \in [1..MaxCarts -> PricedLines] :
          items = [c \in 1..MaxCarts |-> CartItem(c, kind[c])]
    /\ sales = <<>>
    /\ wk = [p \in Workers |-> Idle]
    /\ resp = NoResponse

\* The carts are checked out with every kind of requested discount.
NextPriced ==
    \E c \in CartIdInputs, disc \in DiscountInputs : checkout(CheckoutRequest(c, disc))

SpecPriced == InitPriced /\ [][NextPriced]_vars

\* Carts holding one line of any kind are checked out, and their lines are
\* removed before and afterwards.
NextSnapshot ==
    \/ \E c \in 1..MaxCarts : checkout(CheckoutRequest(c, <<>>))
    \/ \E c \in 1..MaxCarts, m \in {1, 4} : remove_from_cart(c, m)

SpecSnapshot == InitPriced /\ [][NextSnapshot]_vars

\* Lines sent for cart ids with and without a Cart row, on a database that
\* enforces the foreign key and on one that does not, and checkouts.
NextOrphan ==
    \/ \E staff \in {2} : create_cart(staff)
    \/ \E c \in 1..MaxCarts, fk \in BOOLEAN : add_to_cart(c, CatalogLine, fk)
    \/ \E c \in CartIdInputs : checkout(CheckoutRequest(c, <<>>))

SpecOrphan == InitSale /\ [][NextOrphan]_vars

\* The checkout requests a client can send for cart c: complete; with a blank
\* customer name; with a phone of five digits; without staff_id; paid by
\* MIXED, by a method the reports do not know, and without payment_method.
RequestInputs(c) ==
    {CheckoutRequest(c, <<>>),
     [CheckoutRequest(c, <<>>) EXCEPT !.customer_name = ""],
     [CheckoutRequest(c, <<>>) EXCEPT !.customer_phone = "12345"],
     [CheckoutRequest(c, <<>>) EXCEPT !.staff_id = NoneInt],
     [CheckoutRequest(c, <<>>) EXCEPT !.payment_method = "MIXED"],
     [CheckoutRequest(c, <<>>) EXCEPT !.payment_method = "CARD"],
     [CheckoutRequest(c, <<>>) EXCEPT !.payment_method = NoneStr]}

\* Checkouts of every kind of request and the sales breakdown, one request at
\* a time from 15:00 IST, every cart open with one catalog line.
NextRequest ==
    \/ \E c \in 1..MaxCarts : \E d \in RequestInputs(c) : checkout(d)
    \/ admin_sales_breakdown
    \/ owner_dashboard

\* Concurrent checkouts on a host running on UTC, from 15:00 IST on the last
\* day of the year: every cart is open with one catalog line.
InitConc ==
    /\ clock = 2
    /\ tz = 0
    /\ carts = [c \in 1..MaxCarts |-> Cart(2, Instants[1])]
    /\ cartSeq = MaxCarts
    /\ items = [c \in 1..MaxCarts |-> CartItem(c, CatalogLine)]
    /\ sales = <<>>
    /\ wk = [p \in Workers |-> Idle]
    /\ resp = NoResponse

SpecRequest == InitConc /\ [][NextRequest]_vars

\* The workers' checkout steps interleave with each other, with voids and
\* with the clock, which passes into the next year.
NextConc ==
    \/ \E p \in Workers, c \in CartIdInputs : checkout_begin(p, CheckoutRequest(c, <<>>))
    \/ \E p \in Workers : checkout_bill(p)
    \/ \E p \in Workers : checkout_commit(p)
    \/ \E k \in 1..MaxSales : admin_void_sale(k)
    \/ Tick

SpecConc == InitConc /\ [][NextConc]_vars

\* The workers' checkout steps interleave with each other and with requests
\* that remove lines from the carts.
NextLines ==
    \/ \E p \in Workers, c \in CartIdInputs : checkout_begin(p, CheckoutRequest(c, <<>>))
    \/ \E p \in Workers : checkout_bill(p)
    \/ \E p \in Workers : checkout_commit(p)
    \/ \E c \in 1..MaxCarts : remove_from_cart(c, 1)

SpecLines == InitConc /\ [][NextLines]_vars

\* Hold and resume on a host in either time zone: every cart was opened at
\* 14:59:59 IST with one catalog line, and the clock passes the cutover.
InitHold ==
    /\ clock = 1
    /\ tz \in ServerOffsets
    /\ carts = [c \in 1..MaxCarts |-> Cart(2, Instants[1])]
    /\ cartSeq = MaxCarts
    /\ items = [c \in 1..MaxCarts |-> CartItem(c, CatalogLine)]
    /\ sales = <<>>
    /\ wk = [p \in Workers |-> Idle]
    /\ resp = NoResponse

NextHold ==
    \/ \E c \in 1..MaxCarts : hold_cart(c, "Ravi", "9876543210")
    \/ \E role \in Roles, u \in StaffIds \cup {0} : held_carts(role, u)
    \/ \E c \in 1..MaxCarts, role \in Roles : resume_cart(c, role)
    \/ Tick

SpecHold == InitHold /\ [][NextHold]_vars

\* Sales and their reports on a host in either time zone: the carts opened
\* at 14:59:59 IST are checked out before and after the cutover, Sales are
\* voided and the reports are read.
NextReport ==
    \/ \E c \in 1..MaxCarts : checkout(CheckoutRequest(c, <<100>>))
    \/ \E k \in 1..MaxSales : admin_void_sale(k)
    \/ \E u \in StaffIds : staff_cash_summary(u)
    \/ admin_dashboard
    \/ owner_dashboard
    \/ \E u \in {0, 2} : admin_daily_report(u)
    \/ Tick

SpecReport == InitHold /\ [][NextReport]_vars

\* The admin and a staff member send the admin requests, on held carts and
\* on Sales, before and after the cutover.
NextSender ==
    \/ \E c \in 1..MaxCarts : hold_cart(c, "Ravi", "9876543210")
    \/ \E c \in 1..MaxCarts : checkout(CheckoutRequest(c, <<>>))
    \/ \E u \in {1, 2}, c \in 1..MaxCarts : delete_hold_by(u, c)
    \/ \E u \in {1, 2}, k \in 1..MaxSales : void_sale_by(u, k)
    \/ \E u \in {1, 2}, c \in 1..MaxCarts, role \in Roles : resume_by(u, c, role)
    \/ Tick

SpecSender == InitHold /\ [][NextSender]_vars

\* Carts with one line each are held, checked out and discarded.
NextDiscard ==
    \/ \E c \in 1..MaxCarts : hold_cart(c, "Ravi", "9876543210")
    \/ \E c \in 1..MaxCarts, role \in Roles : resume_cart(c, role)
    \/ \E c \in 1..MaxCarts : checkout(CheckoutRequest(c, <<>>))
    \/ \E c \in 1..MaxCarts : admin_delete_hold(c)

SpecDiscard == InitConc /\ [][NextDiscard]_vars

\* Lines of both kinds are added to the carts and removed again, while the
\* carts are held and resumed.
NextQuantity ==
    \/ \E c \in DOMAIN carts, line \in LineInputs : add_to_cart(c, line, TRUE)
    \/ \E c \in 1..MaxCarts, m \in {1, 4} : remove_from_cart(c, m)
    \/ \E c \in 1..MaxCarts : hold_cart(c, "Ravi", "9876543210")
    \/ \E c \in 1..MaxCarts : resume_cart(c, "staff")

SpecQuantity == InitAmount /\ [][NextQuantity]_vars

\* Hold, resume and checkout requests in flight at the same time on carts
\* that are never deleted.
NextStatus ==
    \/ \E p \in Workers, c \in 1..MaxCarts : hold_begin(p, c, "Ravi", "9876543210")
    \/ \E p \in Workers : hold_commit(p)
    \/ \E p \in Workers, c \in 1..MaxCarts, role \in Roles : resume_begin(p, c, role)
    \/ \E p \in Workers : resume_commit(p)
    \/ \E p \in Workers, c \in 1..MaxCarts : checkout_begin(p, CheckoutRequest(c, <<>>))
    \/ \E p \in Workers : checkout_bill(p)
    \/ \E p \in Workers : checkout_commit(p)

SpecStatus == InitConc /\ [][NextStatus]_vars

\* ------------------------------------------------------------ properties
\* The business-day label of a cart's creation differs from the current one.
Stale(c) == get_business_date(carts[c].created_at) # get_business_date(utcnow)

\* C1: no cart id ever has more than one Sale (at most one checkout of a cart
\* succeeds).
C1_OneSalePerCart ==
    \A j, k \in 1..Len(sales) : sales[j].cart_id = sales[k].cart_id => j = k

\* C2: two checkouts in flight on different carts never hold the same bill
\* number from generate_bill_no.
C2_DistinctBillNumbers ==
    \A p, q \in Workers :
        (/\ p # q
         /\ wk[p].pc = "billed" /\ wk[q].pc = "billed"
         /\ wk[p].req.cart_id # wk[q].req.cart_id)
        => wk[p].pending.bill_no # wk[q].pending.bill_no

\* The number of the Sales up to row k that carry row k's year prefix.
RankInYear(S, k) ==
    Cardinality({j \in 1..k : S[j].bill_no.prefix = S[k].bill_no.prefix})

\* Rows 1..Len(S) of Sale table S carry, per year prefix, the numbers 1, 2, ..
\* in order of creation.
Gapless(S) ==
    \A k \in 1..Len(S) : ParseInt(S[k].bill_no.digits) = RankInYear(S, k)

\* C3: before and after every step the sequence numbers of the Sales of one
\* year prefix are 1, 2, .., n in order of creation (no gap, no duplicate),
\* and a step never removes a Sale nor changes a Sale's bill number, voided
\* or not.
C3_BillNumbersGapless ==
    [][/\ Gapless(sales) /\ Gapless(sales')
       /\ Len(sales') >= Len(sales)
       /\ \A k \in 1..Len(sales) : sales'[k].bill_no = sales[k].bill_no]_vars

\* Two Sales of one year, the first voided, after a commit was refused.
C3_Witness ==
    /\ Len(sales) = 2
    /\ sales[1].bill_no.prefix = sales[2].bill_no.prefix
    /\ sales[1].status = "VOID"

\* C4: every persisted Sale has 0 <= discount <= subtotal and
\* total = subtotal - discount.
C4_DiscountClamped ==
    \A k \in 1..Len(sales) :
        /\ 0 <= sales[k].discount
        /\ sales[k].discount <= sales[k].subtotal
        /\ sales[k].total = sales[k].subtotal - sales[k].discount

\* The edges of the cart state machine.
LegalEdge(a, b) ==
    \/ a = b
    \/ a = "ACTIVE" /\ b \in {"HOLD", "PAID"}
    \/ a = "HOLD" /\ b \in {"ACTIVE", "EXPIRED"}
    \/ a = "EXPIRED" /\ b = "ACTIVE"

\* C5: every change of a cart's status is a legal edge, and only a HOLD cart
\* is ever removed.
C5_LegalTransitions ==
    [][\A c \in DOMAIN carts :
          IF c \in DOMAIN carts'
          THEN LegalEdge(carts[c].status, carts'[c].status)
          ELSE carts[c].status = "HOLD"]_vars

\* C6: checkout of an existing cart that is not ACTIVE fails, creates no Sale
\* and leaves the carts as they are.
C6_CheckoutNeedsActive ==
    [][\A c \in DOMAIN carts :
          (carts[c].status # "ACTIVE" /\ checkout(CheckoutRequest(c, <<>>)))
          => (resp'.code # 200 /\ sales' = sales /\ carts' = carts)]_vars

\* C7: a step that answers a checkout with an error changes no cart, no line
\* and no Sale, so the next bill number is what it was; and a step that makes
\* a cart PAID appends a Sale for that cart.
C7_CheckoutAllOrNothing ==
    [][/\ (resp'.op = "checkout" /\ resp'.code # 200)
            => /\ carts' = carts /\ items' = items /\ sales' = sales
               /\ generate_bill_no(sales', localnow') = generate_bill_no(sales, localnow)
       /\ \A c \in DOMAIN carts' :
            (carts'[c].status = "PAID" /\ (c \notin DOMAIN carts \/ carts[c].status # "PAID"))
            => /\ Len(sales') = Len(sales) + 1
               /\ sales'[Len(sales')].cart_id = c]_vars

\* A commit was refused for a duplicate bill number: one Sale exists and the
\* refused request's cart is still ACTIVE with its line.
C7_Witness ==
    /\ resp.op = "checkout" /\ resp.code = 500
    /\ Len(sales) = 1
    /\ \E c \in DOMAIN carts :
         /\ carts[c].status = "ACTIVE"
         /\ CartItemsOf(items, c) # <<>>
         /\ c # sales[1].cart_id

\* C8: the lines of a cart that is HOLD, EXPIRED or PAID never change.
C8_LinesOnlyWhileActive ==
    [][\A c \in DOMAIN carts \cap DOMAIN carts' :
          carts[c].status \in {"HOLD", "EXPIRED", "PAID"}
          => CartItemsOf(items', c) = CartItemsOf(items, c)]_vars

\* C9: when held_carts has answered, no cart of an earlier business day is
\* HOLD, and none is in the list returned.
C9_LazyExpiryOnList ==
    resp.op = "held_carts" =>
        \A c \in DOMAIN carts :
            Stale(c) => (carts[c].status # "HOLD" /\ c \notin resp.body)

\* C10: resume by a non-privileged caller of a HOLD cart of an earlier
\* business day fails and leaves the cart EXPIRED.
C10_StaleResumeExpires ==
    [][\A c \in DOMAIN carts :
          (carts[c].status = "HOLD" /\ Stale(c) /\ resume_cart(c, "staff"))
          => (resp'.code # 200 /\ carts'[c].status = "EXPIRED")]_vars

\* C11: resume of a HOLD cart whose business day is still the current one
\* succeeds for every caller, privileged or not, and makes the cart ACTIVE.
C11_SameDayResume ==
    [][\A c \in DOMAIN carts, role \in Roles :
          (carts[c].status = "HOLD" /\ ~Stale(c) /\ resume_cart(c, role))
          => (resp'.code = 200 /\ carts'[c].status = "ACTIVE")]_vars

\* C12: resume by an admin of a HOLD cart of an earlier business day succeeds,
\* makes the cart ACTIVE and leaves every line of every cart as it was.
C12_AdminResumeKeepsLines ==
    [][\A c \in DOMAIN carts :
          (carts[c].status = "HOLD" /\ Stale(c) /\ resume_cart(c, "admin"))
          => /\ resp'.code = 200
             /\ carts'[c].status = "ACTIVE"
             /\ CartItemsOf(items', c) = CartItemsOf(items, c)
             /\ items' = items]_vars

\* After the cutover, when only an admin passes the gate, a resume has just
\* succeeded and a cart of the earlier business day that was held is ACTIVE
\* with its line.
C12_Witness ==
    /\ resp.op = "resume_cart" /\ resp.code = 200
    /\ HourOf(localnow) >= CutoverHour
    /\ \E c \in DOMAIN carts :
         /\ Stale(c)
         /\ carts[c].status = "ACTIVE"
         /\ carts[c].customer_name # NoneStr
         /\ CartItemsOf(items, c) # <<>>

\* The COMPLETED Sales of the current business day and of the current month.
DoneToday == Completed(sales, SalesOfDay(sales, get_business_date(utcnow)))
DoneMonth == Completed(sales, SalesOfMonth(sales, localnow))

\* C13: every figure a report step answers (dashboards, cash summary, daily
\* report) is the sum or count over the COMPLETED Sales of its period only,
\* so a voided Sale is in none of them.
C13_AggregatesCompletedOnly ==
    [][/\ admin_dashboard =>
            /\ resp'.body.today_total = SumTotal(sales, DoneToday)
            /\ resp'.body.today_bills = Cardinality(DoneToday)
            /\ resp'.body.monthly_total = SumTotal(sales, DoneMonth)
            /\ resp'.body.monthly_bills = Cardinality(DoneMonth)
       /\ owner_dashboard =>
            /\ resp'.body.total_today = SumTotal(sales, DoneToday)
            /\ resp'.body.bill_count = Cardinality(DoneToday)
            /\ resp'.body.cash_total = SumTotal(sales, PaidBy(sales, DoneToday, "CASH"))
            /\ resp'.body.monthly_total = SumTotal(sales, DoneMonth)
            /\ resp'.body.staff_performance = StaffData(sales, DoneToday)
       /\ \A u \in StaffIds : staff_cash_summary(u) =>
            resp'.body.expected_cash =
                SumTotal(sales, PaidBy(sales, {k \in DoneToday : sales[k].staff_id = u}, "CASH"))
       /\ \A u \in {0, 2} : admin_daily_report(u) =>
            /\ resp'.body.bill_count =
                  Cardinality({k \in DoneToday : u # 0 => sales[k].staff_id = u})
            /\ resp'.body.total_amount =
                  SumTotal(sales, {k \in DoneToday : u # 0 => sales[k].staff_id = u})]_vars

\* The business day of UTC instant utc as the calendar date and the time of
\* day in IST: the previous date strictly before 15:00:00, else the date.
LabelAt(utc) ==
    IF (utc + IstOffset) % 86400 < CutoverHour * 3600
    THEN DateOf(utc + IstOffset) - 1
    ELSE DateOf(utc + IstOffset)

\* C14: 14:59:59 and 15:00:00 IST of one calendar date get different business
\* days; the function gives, at the current instant, the previous date before
\* 15:00:00 IST and the date from 15:00:00 on; and every Sale carries the
\* business day of the instant it was settled at, not one computed earlier.
C14_BusinessDayLabel ==
    /\ DateOf(Instants[1] + IstOffset) = DateOf(Instants[2] + IstOffset)
    /\ get_business_date(Instants[1]) # get_business_date(Instants[2])
    /\ get_business_date(utcnow) = LabelAt(utcnow)
    /\ \A k \in 1..Len(sales) : sales[k].business_date = LabelAt(sales[k].created_at)

\* One Sale settled at 14:59:59 IST and one at 15:00:00 IST of the same date,
\* with different business days.
C14_Witness ==
    /\ Len(sales) = 2
    /\ sales[1].created_at = Instants[1]
    /\ sales[2].created_at = Instants[2]
    /\ sales[1].business_date # sales[2].business_date

\* Unit price times quantity of CartItem row k: the custom price where the
\* row has one, the catalog price of its menu item otherwise.
LineAmount(k) ==
    (IF items[k].custom_price = NoneInt
     THEN MenuPrice(items[k].menu_id) ELSE items[k].custom_price) * items[k].quantity

RECURSIVE AmountOver(_)
AmountOver(ks) ==
    IF ks = {} THEN 0
    ELSE LET k == CHOOSE j \in ks : TRUE IN LineAmount(k) + AmountOver(ks \ {k})

\* C15: when a checkout has just succeeded, the Sale it appended has as
\* subtotal the sum over the lines of its cart of unit price times quantity;
\* and when the cart holds the item priced 580 twice and the discount
\* requested was 100 the Sale has subtotal 1160, discount 100, total 1060
\* and, as first Sale of the year, the number 0001.
C15_SubtotalIsSumOfLines ==
    (resp.op = "checkout" /\ resp.code = 200) =>
        LET s == sales[Len(sales)]
        IN  /\ s.subtotal = AmountOver({k \in 1..Len(items) : items[k].cart_id = s.cart_id})
            /\ (/\ CartItemsOf(items, s.cart_id) =
                      <<CartItem(s.cart_id, CatalogLine), CartItem(s.cart_id, CatalogLine)>>
                 /\ s.discount = 100)
                => /\ s.subtotal = 1160
                   /\ s.total = 1060
                   /\ Len(sales) = 1 => s.bill_no.digits = <<0, 0, 0, 1>>

\* The first Sale is the one of a cart with the item priced 580 twice and a
\* requested discount of 100.
C15_Witness ==
    /\ Len(sales) >= 1
    /\ resp.op = "checkout" /\ resp.code = 200
    /\ Len(sales[1].items_json) = 2
    /\ \A k \in 1..2 : sales[1].items_json[k].price = 580
    /\ sales[1].subtotal = 1160 /\ sales[1].discount = 100 /\ sales[1].total = 1060
    /\ sales[1].bill_no.digits = <<0, 0, 0, 1>>

\* The sequence numbers of the persisted Sales whose prefix is year.
IssuedIn(year) ==
    {ParseInt(sales[k].bill_no.digits) :
        k \in {j \in 1..Len(sales) : sales[j].bill_no.prefix = year}}

\* C16: the bill number a checkout obtains has the calendar year of the
\* server's clock as year part and four digits whose value is one more than
\* the highest sequence persisted with that year's prefix, 0001 when there is
\* none, whatever Sales earlier years have.
C16_BillNumberOfYear ==
    [][\A p \in Workers :
          (wk[p].pc = "read" /\ wk'[p].pc = "billed")
          => LET b    == wk'[p].pending.bill_no
                 year == YearOf(DateOf(localnow))
             IN  /\ b.prefix = year
                 /\ Len(b.digits) = BillDigits
                 /\ IssuedIn(year) = {} => b.digits = <<0, 0, 0, 1>>
                 /\ IssuedIn(year) # {}
                      => ParseInt(b.digits) = MaxOf(IssuedIn(year)) + 1]_vars

\* A checkout holds number 0001 of 2025 while a Sale of 2024 is persisted.
C16_Witness ==
    /\ \E k \in 1..Len(sales) : sales[k].bill_no.prefix = 2024
    /\ \E p \in Workers :
         /\ wk[p].pc = "billed"
         /\ wk[p].pending.bill_no.prefix = 2025
         /\ wk[p].pending.bill_no.digits = <<0, 0, 0, 1>>

\* C17: a checkout that requests a discount below zero is refused: it
\* answers an error and creates no Sale, and carts and lines stay as they are.
C17_NegativeDiscountRefused ==
    [][\A c \in CartIdInputs :
          checkout(CheckoutRequest(c, <<0 - 50>>))
          => (resp'.code # 200 /\ sales' = sales /\ carts' = carts /\ items' = items)]_vars

\* C18: every persisted Sale has a total of at least zero.
C18_TotalNonNegative == \A k \in 1..Len(sales) : sales[k].total >= 0

\* A Sale whose requested discount exceeds its subtotal, and a Sale whose
\* only line has a price below zero.
C18_Witness ==
    /\ \E k \in 1..Len(sales) :
         sales[k].discount > sales[k].subtotal /\ sales[k].subtotal > 0 /\ sales[k].total = 0
    /\ \E k \in 1..Len(sales) : sales[k].subtotal < 0

\* C19: checkout of an existing cart without lines answers the error "Cart
\* empty" and changes no cart, no line and no Sale, so the next bill number is
\* what it was.
C19_EmptyCartRefused ==
    [][\A c \in DOMAIN carts :
          (CartItemsOf(items, c) = <<>> /\ checkout(CheckoutRequest(c, <<100>>)))
          => /\ resp'.code = 400 /\ resp'.body = "Cart empty"
             /\ sales' = sales /\ carts' = carts /\ items' = items
             /\ generate_bill_no(sales', localnow') = generate_bill_no(sales, localnow)]_vars

\* "Cart empty" has just been answered for the one cart without lines, which
\* is still ACTIVE, after a Sale was made for another cart.
C19_Witness ==
    /\ resp.op = "checkout" /\ resp.code = 400 /\ resp.body = "Cart empty"
    /\ Len(sales) >= 1
    /\ \E c \in DOMAIN carts :
         /\ CartItemsOf(items, c) = <<>>
         /\ carts[c].status = "ACTIVE"
         /\ \A o \in DOMAIN carts \ {c} : CartItemsOf(items, o) # <<>>

\* C20: checkout with a cart id that has no Cart row answers an error and
\* creates no Sale, and after every step each Sale's cart exists and is PAID.
C20_SaleNeedsCart ==
    [][/\ \A c \in 1..MaxCarts :
            (c \notin DOMAIN carts /\ checkout(CheckoutRequest(c, <<>>)))
            => (resp'.code # 200 /\ sales' = sales)
       /\ \A k \in 1..Len(sales') :
            /\ sales'[k].cart_id \in DOMAIN carts'
            /\ carts'[sales'[k].cart_id].status = "PAID"]_vars

\* C21: every persisted Sale carries a customer name that is not blank, a
\* phone of ten characters and a staff id (a checkout lacking one of them
\* stores nothing).
C21_SaleCarriesCustomer ==
    \A k \in 1..Len(sales) :
        /\ sales[k].customer_name \notin {"", NoneStr}
        /\ Len(sales[k].customer_phone) = 10
        /\ sales[k].staff_id # NoneInt

\* The sum of the values of function f over the keys ks.
RECURSIVE SumValues(_, _)
SumValues(f, ks) ==
    IF ks = {} THEN 0
    ELSE LET m == CHOOSE j \in ks : TRUE IN f[m] + SumValues(f, ks \ {m})

\* C30: when the sales breakdown has answered, the values of its payment
\* breakdown sum to its total sales.
C30_BreakdownSumsToTotal ==
    resp.op = "admin_sales_breakdown" =>
        SumValues(resp.body.payment_breakdown, DOMAIN resp.body.payment_breakdown)
            = resp.body.total_sales

\* C22: no step removes a Sale or changes anything of a Sale but its status,
\* and a VOID Sale stays VOID; a void changes at most the status of the Sale
\* it names and changes nothing when that Sale is VOID already or unknown.
C22_VoidChangesOnlyStatus ==
    [][/\ Len(sales') >= Len(sales)
       /\ \A k \in 1..Len(sales) :
            /\ sales'[k] = [sales[k] EXCEPT !.status = sales'[k].status]
            /\ sales'[k].status \in {"COMPLETED", "VOID"}
            /\ sales[k].status = "VOID" => sales'[k].status = "VOID"
       /\ \A id \in 1..MaxSales :
            admin_void_sale(id)
            => /\ Len(sales') = Len(sales)
               /\ \A k \in 1..Len(sales) : k # id => sales'[k] = sales[k]
               /\ (id > Len(sales) \/ sales[id].status = "VOID") => sales' = sales
               /\ carts' = carts /\ items' = items]_vars

\* A void has just answered; the first Sale is VOID with its bill number,
\* amounts, snapshot and business day, the second is COMPLETED.
C22_Witness ==
    /\ resp.op = "admin_void_sale" /\ resp.code = 200
    /\ Len(sales) = 2
    /\ sales[1].status = "VOID" /\ sales[2].status = "COMPLETED"
    /\ sales[1].subtotal = 580 /\ sales[1].discount = 100 /\ sales[1].total = 480
    /\ sales[1].bill_no.digits = <<0, 0, 0, 1>>
    /\ Len(sales[1].items_json) = 1
    /\ sales[1].business_date = get_business_date(sales[1].created_at)

\* Name, quantity, unit price and line subtotal of CartItem row i.
LineCopy(i) ==
    LET unit == IF i.custom_price = NoneInt THEN MenuPrice(i.menu_id) ELSE i.custom_price
    IN  [quantity |-> i.quantity,
         name |-> IF i.custom_name \in {NoneStr, ""} THEN MenuName(i.menu_id) ELSE i.custom_name,
         price |-> unit,
         subtotal |-> unit * i.quantity]

\* C23: the snapshot of the Sale a checkout appends has, line by line, the
\* name, quantity, unit price and line subtotal of the cart's lines at that
\* moment, and no later step changes the snapshot of any Sale.
C23_SnapshotIsACopy ==
    [][/\ \A k \in 1..Len(sales) :
            k <= Len(sales') /\ sales'[k].items_json = sales[k].items_json
       /\ \A c \in 1..MaxCarts :
            (checkout(CheckoutRequest(c, <<>>)) /\ resp'.code = 200)
            => LET snap == sales'[Len(sales')].items_json
                   rows == CartItemsOf(items, c)
               IN  /\ Len(snap) = Len(rows)
                   /\ \A j \in 1..Len(rows) : snap[j] = LineCopy(rows[j])]_vars

\* The first Sale keeps the snapshot of an ad-hoc line after every line of
\* its cart has been removed.
C23_Witness ==
    /\ Len(sales) >= 1
    /\ Len(sales[1].items_json) = 1
    /\ sales[1].items_json[1].name = "Extra" /\ sales[1].items_json[1].price = 50
    /\ CartItemsOf(items, sales[1].cart_id) = <<>>

\* C24: a discard of a held cart, a void of a Sale, or a resume of a held
\* cart of an earlier business day sent by a user the User table does not
\* make admin leaves carts, lines and Sales as they are.
C24_AdminOnly ==
    [][\A u \in {1, 2} :
          DirectoryRole(u) # "admin"
          => /\ \A c \in DOMAIN carts :
                  delete_hold_by(u, c) => (carts' = carts /\ items' = items)
             /\ \A k \in 1..MaxSales :
                  void_sale_by(u, k) => sales' = sales
             /\ \A c \in DOMAIN carts, role \in Roles :
                  (carts[c].status = "HOLD" /\ Stale(c) /\ resume_by(u, c, role))
                  => carts' = carts]_vars

\* C25: a discard of a HOLD cart removes the cart and every line of it and
\* nothing else; a discard of a cart that is not HOLD or does not exist
\* answers an error and removes nothing.
C25_DiscardPurges ==
    [][\A c \in 1..MaxCarts :
          admin_delete_hold(c)
          => IF c \in DOMAIN carts /\ carts[c].status = "HOLD"
             THEN /\ resp'.code = 200
                  /\ DOMAIN carts' = DOMAIN carts \ {c}
                  /\ \A o \in DOMAIN carts' : carts'[o] = carts[o]
                  /\ \A k \in 1..Len(items') : items'[k].cart_id # c
                  /\ \A o \in DOMAIN carts' : CartItemsOf(items', o) = CartItemsOf(items, o)
                  /\ sales' = sales
             ELSE /\ resp'.code \in {400, 404}
                  /\ carts' = carts /\ items' = items /\ sales' = sales]_vars

\* A discard has just succeeded: one cart is gone with its line, a cart that
\* is PAID is still there with its line.
C25_Witness ==
    /\ resp.op = "admin_delete_hold" /\ resp.code = 200
    /\ \E c \in 1..MaxCarts :
         /\ c \notin DOMAIN carts
         /\ CartItemsOf(items, c) = <<>>
    /\ \E o \in DOMAIN carts :
         /\ carts[o].status = "PAID"
         /\ CartItemsOf(items, o) # <<>>

\* C26: no cart holds two lines for the same catalog item (a second add of
\* the item raises the quantity of its line).
C26_OneLinePerCatalogItem ==
    \A j, k \in 1..Len(items) :
        (/\ items[j].cart_id = items[k].cart_id
         /\ items[j].menu_id = items[k].menu_id
         /\ items[j].custom_price = NoneInt /\ items[k].custom_price = NoneInt)
        => j = k

\* C27: before and after every step every stored line has a quantity of at
\* least 1; a removal takes one unit from one matching line, deleting the line
\* when that was its last unit, and with no matching line it answers without
\* an error and changes nothing.
C27_QuantityAtLeastOne ==
    [][/\ \A k \in 1..Len(items) : items[k].quantity >= 1
       /\ \A k \in 1..Len(items') : items'[k].quantity >= 1
       /\ \A c \in 1..MaxCarts, m \in {1, 4} :
            remove_from_cart(c, m)
            => /\ resp'.code = 200
               /\ carts' = carts /\ sales' = sales
               /\ IF Matching(c, m) = {}
                  THEN items' = items
                  ELSE /\ AmountOver({k \in 1..Len(items') : items'[k].cart_id = c})
                            < AmountOver({k \in 1..Len(items) : items[k].cart_id = c})
                          \/ Len(items') = Len(items) - 1
                       /\ \A o \in DOMAIN carts \ {c} :
                            CartItemsOf(items', o) = CartItemsOf(items, o)]_vars

\* A removal has just answered: one line is stored, with quantity 1, and a
\* cart has no line.
C27_Witness ==
    /\ resp.op = "remove_from_cart" /\ resp.code = 200
    /\ Len(items) = 1
    /\ items[1].quantity = 1
    /\ \E c \in DOMAIN carts : CartItemsOf(items, c) = <<>>

\* C28: a cart for which a Sale has been committed is PAID, never HOLD or
\* ACTIVE, under every interleaving of hold, resume and checkout (as after
\* every serial order of the requests).
C28_PaidStaysPaid ==
    \A k \in 1..Len(sales) : carts[sales[k].cart_id].status = "PAID"

\* C29: in the step that makes a cart PAID, the Sale appended has as snapshot
\* the copy of exactly the lines stored for the cart, and as subtotal their
\* sum, whatever requests changed the lines while the checkout ran.
C29_SaleMatchesPaidCart ==
    [][\A c \in DOMAIN carts :
          (carts[c].status # "PAID" /\ carts'[c].status = "PAID")
          => LET s    == sales'[Len(sales')]
                 rows == CartItemsOf(items', c)
             IN  /\ Len(s.items_json) = Len(rows)
                 /\ \A j \in 1..Len(rows) : s.items_json[j] = LineCopy(rows[j])
                 /\ s.subtotal = AmountOver({k \in 1..Len(items') : items'[k].cart_id = c})]_vars

\* The hour that get_business_date compares with the cutover has been reached.
AfterCutover == HourOf(utcnow + IstOffset) >= CutoverHour

\* C31: a resume by a non-admin caller is refused as expired, and the list of
\* held carts of a non-admin caller is emptied, exactly when the clock of
\* get_business_date (UTC+5:30) reads an hour of 15 or later, whatever the
\* offset of the server's local clock.
C31_GateFollowsBusinessClock ==
    [][/\ \A c \in 1..MaxCarts :
             resume_cart(c, "staff") => (resp'.code = 403 <=> AfterCutover)
       /\ held_carts("staff", 0)
             => resp'.body = IF AfterCutover
                             THEN {}
                             ELSE {c \in DOMAIN carts : carts[c].status = "HOLD"}]_vars
====
